---- MODULE Spec2Model ----
(***************************************************************************)
(* pylaunchd: the service-listing pipeline of pylaunchd_gui.py.            *)
(*                                                                         *)
(* A Python str is a sequence of one-character strings, so that lower(),   *)
(* the `in` substring test and the ordering of sorted() are computed and   *)
(* not assumed.  A table row is the tuple <<label, path, state>>.  Python  *)
(* column numbers are 0-based: column ncol is component ncol + 1.          *)
(*                                                                         *)
(* The text launchctl prints is kept at the granularity the parsing code   *)
(* reads it: the services block is a sequence of lines, each a sequence of *)
(* tab-separated fields; a detail text is a sequence of lines, each with   *)
(* its leading whitespace (present or not), its key and its value.         *)
(***************************************************************************)
EXTENDS Integers, Sequences, FiniteSets, TLC

VARIABLES
    pc,                      \* "start": before MainWindow(); "running": event loop; "crashed": the constructor raised
    data,                    \* MainWindow.data, the list shared with CustomTableModel.arraydata (the view)
    data_all,                \* MainWindow.data_all (the full record set)
    jobs,                    \* MainWindow.jobs: label -> raw detail text
    searchText,              \* the text of MainWindow.searchBox
    last_saved_sort_column,  \* CustomTableModel.last_saved_sort_column
    last_saved_sort_order,   \* CustomTableModel.last_saved_sort_order
    lastOp,                  \* observer: the handler that ran last
    lastOut,                 \* observer: what launchctl answered to the last handler
    reported,                \* observer: the last handler called show_gui_error
    clearPhase,              \* observer: progress through on_search_changed(""), (X), ("")
    clearView                \* observer: the view after the first on_search_changed("") of that sequence

vars == <<pc, data, data_all, jobs, searchText, last_saved_sort_column,
          last_saved_sort_order, lastOp, lastOut, reported, clearPhase, clearView>>

-----------------------------------------------------------------------------
(* Bounds *)

\* the largest number of lines in a services block
MaxJobs == 2

-----------------------------------------------------------------------------
(* Python str *)

\* ord(c) of the characters used
Ord == [c \in {"-", "/", "0", "L", "a", "l", "r"} |->
          CASE c = "-" -> 45 [] c = "/" -> 47 [] c = "0" -> 48 [] c = "L" -> 76
            [] c = "a" -> 97 [] c = "l" -> 108 [] c = "r" -> 114]

\* str.lower() of one character
LowerChar(c) == IF c = "L" THEN "l" ELSE c

\* str.lower()
Lower(s) == [i \in 1..Len(s) |-> LowerChar(s[i])]

\* sub in s
Contains(sub, s) ==
    \E i \in 0..(Len(s) - Len(sub)) : SubSeq(s, i + 1, i + Len(sub)) = sub

\* s.startswith(prefix)
StartsWith(s, prefix) ==
    Len(s) >= Len(prefix) /\ SubSeq(s, 1, Len(prefix)) = prefix

\* s < t for two str: by code point, a proper prefix first
RECURSIVE StrLess(_, _)
StrLess(s, t) ==
    IF t = <<>> THEN FALSE
    ELSE IF s = <<>> THEN TRUE
    ELSE IF Ord[Head(s)] # Ord[Head(t)] THEN Ord[Head(s)] < Ord[Head(t)]
    ELSE StrLess(Tail(s), Tail(t))

-----------------------------------------------------------------------------
(* What launchctl prints *)

\* Python None where a str may stand
None == <<"None">>

\* Python None where an int may stand
NoColumn == -1

\* a line of the services block, "\t0\t-\t<label>": its tab-separated fields
ServiceLine(label) == << <<>>, <<"0">>, <<"-">>, label >>

\* a line of a detail text: leading whitespace or none, then "<key> = <val>"
DetailLine(indent, key, val) == [indent |-> indent, key |-> key, val |-> val]

\* The jobs launchctl can list: the services line of each and the detail text that
\* "launchctl print <domain>/<label>" answers for it.
ServiceEntries ==
    { \* an absolute path and a state
      [line |-> ServiceLine(<<"a">>),
       details |-> << DetailLine(TRUE, "path", <<"/", "L">>),
                      DetailLine(TRUE, "state", <<"r">>) >>],
      \* the same absolute path, no state line
      [line |-> ServiceLine(<<"L">>),
       details |-> << DetailLine(TRUE, "pid", <<"0">>),
                      DetailLine(TRUE, "path", <<"/", "L">>) >>],
      \* the first path value is relative, a later one absolute
      [line |-> ServiceLine(<<"r">>),
       details |-> << DetailLine(TRUE, "path", <<"L">>),
                      DetailLine(TRUE, "path", <<"/", "a">>),
                      DetailLine(TRUE, "state", <<"r">>) >>],
      \* no line "<whitespace>path = ...": the only path line starts in column 0
      [line |-> ServiceLine(<<"0">>),
       details |-> << DetailLine(FALSE, "path", <<"/", "L">>),
                      DetailLine(TRUE, "state", <<"r">>) >>] }

\* services blocks of at most MaxJobs lines, no line twice
ServiceBlocks ==
    UNION { { b \in [1..n -> ServiceEntries] :
                \A i, j \in 1..n : b[i].line = b[j].line => i = j } : n \in 0..MaxJobs }

\* One "launchctl print <domain>" and the per-label prints that follow it:
\*   started: Popen found the program; err: the domain print wrote to stderr;
\*   marker: stdout holds "services = {\n"; services: the block after the marker.
ToolOutputs ==
    { [started |-> TRUE, err |-> e, marker |-> TRUE, services |-> b] :
          e \in BOOLEAN, b \in ServiceBlocks }
      \cup { [started |-> TRUE, err |-> e, marker |-> FALSE, services |-> <<>>] : e \in BOOLEAN }
      \cup { [started |-> FALSE, err |-> FALSE, marker |-> FALSE, services |-> <<>>] }

\* no launchctl call made
NoOut == [started |-> FALSE, err |-> FALSE, marker |-> FALSE, services |-> <<>>]

-----------------------------------------------------------------------------
(* MainWindow.exec *)

\* subprocess.Popen raises when the program cannot be started
ExecRaises(out) == ~out.started

\* if err: show_gui_error(...); the result is returned either way
ExecReports(out) == out.started /\ out.err

-----------------------------------------------------------------------------
(* MainWindow.load_data_launchctl *)

\* line.split('\t')[-1]
LabelOf(line) == line[Len(line)]

\* re.findall('^\s+<key> =\s(.*$)', details, re.MULTILINE)
RECURSIVE FindAll(_, _)
FindAll(key, details) ==
    IF details = <<>> THEN <<>>
    ELSE IF Head(details).indent /\ Head(details).key = key
         THEN <<Head(details).val>> \o FindAll(key, Tail(details))
         ELSE FindAll(key, Tail(details))

\* path = len(paths) and paths[0] or None
PathOf(details) ==
    LET paths == FindAll("path", details)
    IN  IF Len(paths) # 0 /\ paths[1] # <<>> THEN paths[1] ELSE None

\* state = len(states) and states[0] or ''
StateOf(details) ==
    LET states == FindAll("state", details)
    IN  IF Len(states) # 0 /\ states[1] # <<>> THEN states[1] ELSE <<>>

\* HasAbsolutePath without the startswith('/') test
HasAbsolutePath_AnyPath(details) ==
    LET path == PathOf(details)
    IN  path # None /\ path # <<>>

\* if path and path.startswith('/')
HasAbsolutePath(details) ==
    LET path == PathOf(details)
    IN  path # None /\ path # <<>> /\ StartsWith(path, <<"/">>)

\* LoadRows putting each new row in front (data.insert(0, ...))
RECURSIVE LoadRows_InFront(_)
LoadRows_InFront(services) ==
    IF services = <<>> THEN <<>>
    ELSE LET label   == LabelOf(Head(services).line)
             details == Head(services).details
         IN  LoadRows_InFront(Tail(services)) \o
               (IF label # <<>> /\ HasAbsolutePath(details)
                THEN << <<label, PathOf(details), StateOf(details)>> >>
                ELSE <<>>)

\* the rows appended by the loop over services.splitlines()
RECURSIVE LoadRows(_)
LoadRows(services) ==
    IF services = <<>> THEN <<>>
    ELSE LET label   == LabelOf(Head(services).line)
             details == Head(services).details
         IN  (IF label # <<>> /\ HasAbsolutePath(details)
              THEN << <<label, PathOf(details), StateOf(details)>> >>
              ELSE <<>>) \o LoadRows(Tail(services))

\* the labels the loop reaches: the non-empty last fields, in order
RECURSIVE ListedLabels(_)
ListedLabels(services) ==
    IF services = <<>> THEN <<>>
    ELSE (IF LabelOf(Head(services).line) # <<>>
          THEN <<LabelOf(Head(services).line)>> ELSE <<>>) \o ListedLabels(Tail(services))

\* self.jobs[label] = details, for each label the loop reaches
RECURSIVE LoadJobs(_, _)
LoadJobs(cache, services) ==
    IF services = <<>> THEN cache
    ELSE LET label == LabelOf(Head(services).line)
             next  == IF label # <<>>
                      THEN [l \in DOMAIN cache \cup {label} |->
                               IF l = label THEN Head(services).details ELSE cache[l]]
                      ELSE cache
         IN  LoadJobs(next, Tail(services))

\* load_data_launchctl raises: Popen fails, or split('services = {\n')[1] finds no second part
LoadRaises(out) == ExecRaises(out) \/ ~out.marker

\* the value load_data_launchctl returns
LoadData(out) == LoadRows(out.services)

-----------------------------------------------------------------------------
(* CustomTableModel.sort *)

\* operator.itemgetter(ncol)
Key(row, ncol) == row[ncol + 1]

\* row sorts strictly before other: by key, the comparison turned round when reverse
Precedes(row, other, ncol, reverse) ==
    IF reverse = 0 THEN StrLess(Key(row, ncol), Key(other, ncol))
    ELSE StrLess(Key(other, ncol), Key(row, ncol))

\* InsertRow putting the row in front of the elements with an equal key
RECURSIVE InsertRow_BeforeEqual(_, _, _, _)
InsertRow_BeforeEqual(row, s, ncol, reverse) ==
    IF s = <<>> THEN <<row>>
    ELSE IF ~Precedes(Head(s), row, ncol, reverse) THEN <<row>> \o s
    ELSE <<Head(s)>> \o InsertRow_BeforeEqual(row, Tail(s), ncol, reverse)

\* row put into the sorted list s behind every element it does not strictly precede
RECURSIVE InsertRow(_, _, _, _)
InsertRow(row, s, ncol, reverse) ==
    IF s = <<>> THEN <<row>>
    ELSE IF Precedes(row, Head(s), ncol, reverse) THEN <<row>> \o s
    ELSE <<Head(s)>> \o InsertRow(row, Tail(s), ncol, reverse)

\* sorted(arraydata, key=operator.itemgetter(ncol), reverse=order): stable, also when reverse
RECURSIVE Sorted(_, _, _)
Sorted(s, ncol, reverse) ==
    IF s = <<>> THEN <<>>
    ELSE InsertRow(s[Len(s)], Sorted(SubSeq(s, 1, Len(s) - 1), ncol, reverse), ncol, reverse)

Columns == 0..2

\* Qt.AscendingOrder, Qt.DescendingOrder
Orders == {0, 1}

-----------------------------------------------------------------------------
(* MainWindow.on_search_changed *)

\* text.lower() in d[0].lower() or text in d[1].lower()
Matches(text, d) ==
    Contains(Lower(text), Lower(d[1])) \/ Contains(text, Lower(d[2]))

\* the list assigned to self.data[:]
FilteredData(text, all) ==
    IF text # <<>> THEN SelectSeq(all, LAMBDA d : Matches(text, d)) ELSE all

\* what the user types into the search box
Texts == { <<>>, <<"l">>, <<"L">> }

-----------------------------------------------------------------------------
(* The program *)

Init ==
    /\ pc = "start"
    /\ data = <<>>
    /\ data_all = <<>>
    /\ jobs = <<>>
    /\ searchText = <<>>
    /\ last_saved_sort_column = NoColumn
    /\ last_saved_sort_order = NoColumn
    /\ lastOp = "none"
    /\ lastOut = NoOut
    /\ reported = FALSE
    /\ clearPhase = 0
    /\ clearView = <<>>

\* MainWindow(): the first load is not guarded, so an exception of
\* load_data_launchctl leaves the constructor and ends the program.
\* configureTableView ends with setSortingEnabled(True), on which the view sorts the
\* model by the header's sort indicator (ncol, order).
MainWindow_init(out, ncol, order) ==
    /\ pc = "start"
    /\ IF LoadRaises(out)
       THEN /\ pc' = "crashed"
            /\ UNCHANGED <<data, data_all, jobs, last_saved_sort_column, last_saved_sort_order>>
       ELSE /\ pc' = "running"
            /\ jobs' = LoadJobs(<<>>, out.services)
            /\ data_all' = LoadData(out)
            /\ data' = Sorted(LoadData(out), ncol, order)
            /\ last_saved_sort_column' = ncol
            /\ last_saved_sort_order' = order
    /\ lastOp' = "init"
    /\ lastOut' = out
    /\ reported' = ExecReports(out)
    /\ UNCHANGED <<searchText, clearPhase, clearView>>

\* initialize_data without self.data_all[:] = self.data
initialize_data_ViewOnly(out) ==
    /\ IF LoadRaises(out)
       THEN UNCHANGED <<data, data_all, jobs>>
       ELSE /\ data' = LoadData(out)
            /\ data_all' = data_all
            /\ jobs' = LoadJobs(jobs, out.services)
    /\ lastOut' = out
    /\ reported' = ExecReports(out)
    /\ clearPhase' = 0
    /\ clearView' = <<>>
    /\ UNCHANGED <<pc, searchText, last_saved_sort_column, last_saved_sort_order>>

\* try: self.data[:] = self.load_data_launchctl(idx); self.data_all[:] = self.data
\* except Exception: print(...)
initialize_data(out) ==
    /\ IF LoadRaises(out)
       THEN UNCHANGED <<data, data_all, jobs>>
       ELSE /\ data' = LoadData(out)
            /\ data_all' = LoadData(out)
            /\ jobs' = LoadJobs(jobs, out.services)
    /\ lastOut' = out
    /\ reported' = ExecReports(out)
    /\ clearPhase' = 0
    /\ clearView' = <<>>
    /\ UNCHANGED <<pc, searchText, last_saved_sort_column, last_saved_sort_order>>

on_refresh(out) ==
    /\ pc = "running"
    /\ initialize_data(out)
    /\ lastOp' = "refresh"

on_domain_changed(out) ==
    /\ pc = "running"
    /\ initialize_data(out)
    /\ lastOp' = "domain"

\* on_search_changed filtering the rows shown instead of data_all
on_search_changed_OfView(text) ==
    /\ pc = "running"
    /\ text # searchText
    /\ searchText' = text
    /\ data' = FilteredData(text, data)
    /\ lastOp' = "search"
    /\ lastOut' = NoOut
    /\ reported' = FALSE
    /\ clearPhase' = IF text = <<>> THEN (IF clearPhase = 2 THEN 3 ELSE 1)
                     ELSE (IF clearPhase \in {1, 3} THEN 2 ELSE 0)
    /\ clearView' = IF text = <<>> THEN (IF clearPhase = 2 THEN clearView ELSE <<>>)
                    ELSE (IF clearPhase \in {1, 3} THEN data ELSE <<>>)
    /\ UNCHANGED <<pc, data_all, jobs, last_saved_sort_column, last_saved_sort_order>>

\* searchBox.textChanged: the text differs from the one before
on_search_changed(text) ==
    /\ pc = "running"
    /\ text # searchText
    /\ searchText' = text
    /\ data' = FilteredData(text, data_all)
    /\ lastOp' = "search"
    /\ lastOut' = NoOut
    /\ reported' = FALSE
    /\ clearPhase' = IF text = <<>> THEN (IF clearPhase = 2 THEN 3 ELSE 1)
                     ELSE (IF clearPhase \in {1, 3} THEN 2 ELSE 0)
    /\ clearView' = IF text = <<>> THEN (IF clearPhase = 2 THEN clearView ELSE <<>>)
                    ELSE (IF clearPhase \in {1, 3} THEN data ELSE <<>>)
    /\ UNCHANGED <<pc, data_all, jobs, last_saved_sort_column, last_saved_sort_order>>

\* sort with data_all bound to the same list as data (self.data_all = self.data)
sort_SharedList(ncol, order) ==
    /\ pc = "running"
    /\ data' = Sorted(data, ncol, order)
    /\ data_all' = data'
    /\ last_saved_sort_column' = ncol
    /\ last_saved_sort_order' = order
    /\ lastOp' = "sort"
    /\ lastOut' = NoOut
    /\ reported' = FALSE
    /\ clearPhase' = 0
    /\ clearView' = <<>>
    /\ UNCHANGED <<pc, jobs, searchText>>

\* a click on a column header
sort(ncol, order) ==
    /\ pc = "running"
    /\ data' = Sorted(data, ncol, order)
    /\ last_saved_sort_column' = ncol
    /\ last_saved_sort_order' = order
    /\ lastOp' = "sort"
    /\ lastOut' = NoOut
    /\ reported' = FALSE
    /\ clearPhase' = 0
    /\ clearView' = <<>>
    /\ UNCHANGED <<pc, data_all, jobs, searchText>>

Verbs == {"start", "stop", "enable", "disable"}

\* what "launchctl <verb> <label>" can do: not start, or write to stderr or not
ActionOutputs == { o \in ToolOutputs : ~o.marker }

\* run_job_action with an exec that raises on error-stream output
run_job_action_Raising(args, selected, out) ==
    /\ pc = "running"
    /\ IF selected = 0
       THEN /\ reported' = TRUE
            /\ lastOut' = NoOut
            /\ pc' = pc
       ELSE /\ reported' = FALSE
            /\ lastOut' = out
            /\ IF ExecRaises(out) \/ out.err THEN pc' \in {"running", "crashed"} ELSE pc' = pc
    /\ lastOp' = "action"
    /\ clearPhase' = 0
    /\ clearView' = <<>>
    /\ UNCHANGED <<data, data_all, jobs, searchText,
                   last_saved_sort_column, last_saved_sort_order>>

\* selected = 0: no row selected; otherwise the selected row of the view.
\* An exception of Popen leaves the slot: PyQt then aborts the program or only
\* prints the traceback, depending on its version and sys.excepthook.
run_job_action(args, selected, out) ==
    /\ pc = "running"
    /\ IF selected = 0
       THEN /\ reported' = TRUE
            /\ lastOut' = NoOut
            /\ pc' = pc
       ELSE /\ reported' = ExecReports(out)
            /\ lastOut' = out
            /\ IF ExecRaises(out) THEN pc' \in {"running", "crashed"} ELSE pc' = pc
    /\ lastOp' = "action"
    /\ clearPhase' = 0
    /\ clearView' = <<>>
    /\ UNCHANGED <<data, data_all, jobs, searchText,
                   last_saved_sort_column, last_saved_sort_order>>

Next ==
    \/ \E out \in ToolOutputs, ncol \in Columns, order \in Orders :
           MainWindow_init(out, ncol, order)
    \/ \E out \in ToolOutputs : on_refresh(out)
    \/ \E out \in ToolOutputs : on_domain_changed(out)
    \/ \E text \in Texts : on_search_changed(text)
    \/ \E ncol \in Columns, order \in Orders : sort(ncol, order)
    \/ \E args \in Verbs, selected \in 0..Len(data), out \in ActionOutputs :
           run_job_action(args, selected, out)

Spec == Init /\ [][Next]_vars

-----------------------------------------------------------------------------
(* Properties *)

Range(s) == { s[i] : i \in DOMAIN s }

LabelsIn(rows) == { rows[i][1] : i \in DOMAIN rows }

LoadOps == {"init", "refresh", "domain"}

\* the position of a row in a list that holds it once
IndexIn(rows, row) == CHOOSE i \in DOMAIN rows : rows[i] = row

\* the filter as specified: label without regard to case, path with regard to case
MatchesAsSpecified(text, d) ==
    Contains(Lower(text), Lower(d[1])) \/ Contains(text, d[2])

\* C1: after setFilter(text) the view holds exactly the records whose label contains
\* text case-insensitively or whose path contains text case-sensitively, and the
\* whole Snapshot when text is empty.
C1_FilterAsSpecified ==
    lastOp = "search" =>
        Range(data) = { d \in Range(data_all) :
                          searchText = <<>> \/ MatchesAsSpecified(searchText, d) }

\* C2: a describe-domain output without the services marker gives an empty Snapshot
\* and view and raises nothing, at construction, on refresh and on domain change.
C2_NoMarkerIsEmptySnapshot ==
    (lastOp \in LoadOps /\ lastOut.started /\ ~lastOut.marker) =>
        (pc = "running" /\ data_all = <<>> /\ data = <<>>)

\* C3: after a load the keys of the detail cache are exactly the labels that load
\* enumerated.
C3_CacheRebuiltOnLoad ==
    (lastOp \in LoadOps /\ ~LoadRaises(lastOut)) =>
        DOMAIN jobs = Range(ListedLabels(lastOut.services))

\* C4: a refresh or domain change whose describe-domain call cannot be started or
\* writes to its error stream leaves the Snapshot and the view as they were.
C4_FailedLoadKeepsSnapshot ==
    [][(lastOp' \in {"refresh", "domain"} /\ (~lastOut'.started \/ lastOut'.err)) =>
           (data_all' = data_all /\ data' = data)]_vars

\* C5: in every state of the running program the view holds exactly the records of
\* the Snapshot that match the text of the search box (all of them when it is empty).
C5_ViewIsFilteredSnapshot ==
    pc = "running" =>
        Range(data) = { d \in Range(data_all) : searchText = <<>> \/ Matches(searchText, d) }

\* C6: every record of the Snapshot and of the view has a path that starts with '/',
\* and a listed label whose detail text has no path line, or whose first path value
\* is not absolute, has no record.
C6_PathsAbsolute ==
    /\ \A d \in Range(data_all) \cup Range(data) :
           d[2] # None /\ d[2] # <<>> /\ Head(d[2]) = "/"
    /\ (lastOp \in LoadOps /\ ~LoadRaises(lastOut)) =>
           \A i \in DOMAIN lastOut.services :
               LET paths == FindAll("path", lastOut.services[i].details)
               IN  (paths = <<>> \/ paths[1] = <<>> \/ Head(paths[1]) # "/") =>
                       LabelOf(lastOut.services[i].line) \notin LabelsIn(data_all)

\* a load listed two labels, dropped one whose first path value is relative and
\* kept the other
C6_Witness ==
    /\ lastOp \in LoadOps
    /\ Len(lastOut.services) = 2
    /\ Len(data_all) = 1
    /\ \E i \in DOMAIN lastOut.services :
           LET paths == FindAll("path", lastOut.services[i].details)
           IN  paths # <<>> /\ Head(paths[1]) # "/"

\* C7: sort(ncol, order) permutes the view into the order of column ncol, ascending
\* or descending; records with equal values in that column keep their order; the
\* same sort applied again changes nothing.
C7_SortStable ==
    [][lastOp' = "sort" =>
          LET ncol == last_saved_sort_column'
              rev  == last_saved_sort_order'
          IN  /\ Len(data') = Len(data)
              /\ Range(data') = Range(data)
              /\ \A i, j \in DOMAIN data' :
                     i < j =>
                       /\ ~Precedes(data'[j], data'[i], ncol, rev)
                       /\ Key(data'[i], ncol) = Key(data'[j], ncol) =>
                              IndexIn(data, data'[i]) < IndexIn(data, data'[j])
              /\ (lastOp = "sort" /\ last_saved_sort_column = ncol
                    /\ last_saved_sort_order = rev) => data' = data]_vars

\* a descending sort on the path column of two records with the same path, which
\* stay in the order they had, not that of data_all
C7_Witness ==
    /\ lastOp = "sort"
    /\ last_saved_sort_column = 1
    /\ last_saved_sort_order = 1
    /\ Len(data) = 2
    /\ data[1][2] = data[2][2]
    /\ data # data_all

\* C8: on_search_changed(""), on_search_changed(X), on_search_changed("") ends with
\* the view of the first on_search_changed(""), the full Snapshot in its order.
C8_ClearRestoresFullView ==
    clearPhase = 3 => (data = clearView /\ data = data_all)

\* the three calls have been made on a Snapshot of two records
C8_Witness ==
    clearPhase = 3 /\ Len(data_all) = 2 /\ data = data_all /\ lastOp = "search"

\* C9: on_search_changed and sort leave data_all as it is.
C9_SnapshotUntouched ==
    [][lastOp' \in {"search", "sort"} => data_all' = data_all]_vars

\* a sort has reordered the view and a filter has shortened it, data_all whole
C9_Witness ==
    \/ lastOp = "sort" /\ Len(data) = 2 /\ data # data_all
    \/ lastOp = "search" /\ Len(data) < Len(data_all)

\* C10: a start/stop/enable/disable whose launchctl call writes to its error stream
\* is reported, raises nothing, and leaves Snapshot, view and detail cache unchanged.
C10_ActionFailureKeepsState ==
    [][(lastOp' = "action" /\ lastOut'.started /\ lastOut'.err) =>
           (reported' /\ pc' = "running" /\ UNCHANGED <<data, data_all, jobs>>)]_vars

\* an action on a selected row wrote to the error stream
C10_Witness ==
    lastOp = "action" /\ lastOut.started /\ lastOut.err /\ reported /\ pc = "running"
      /\ data # <<>>

\* the lines of a services block whose detail text has a first path value that
\* starts with '/'
KeptLines(services) ==
    { i \in DOMAIN services :
        LET paths == FindAll("path", services[i].details)
        IN  paths # <<>> /\ paths[1] # <<>> /\ Head(paths[1]) = "/" }

\* C11: a load returns one record for each listed label whose detail text has an
\* absolute first path value, in the order of the listing, with the first state
\* value, or the empty string when there is no state line; the other labels are
\* left out.
C11_LoadInListingOrder ==
    (lastOp \in LoadOps /\ ~LoadRaises(lastOut)) =>
        LET services == lastOut.services
            kept     == KeptLines(services)
        IN  /\ Len(data_all) = Cardinality(kept)
            /\ \A i \in kept :
                   LET k      == Cardinality({ j \in kept : j <= i })
                       states == FindAll("state", services[i].details)
                   IN  /\ data_all[k][1] = LabelOf(services[i].line)
                       /\ data_all[k][2] = FindAll("path", services[i].details)[1]
                       /\ data_all[k][3] = IF states = <<>> THEN <<>> ELSE states[1]

\* a load listed a label without an absolute first path and then one with an
\* absolute path and no state line: one record, with the empty state
C11_Witness ==
    /\ lastOp \in LoadOps
    /\ ~LoadRaises(lastOut)
    /\ Len(lastOut.services) = 2
    /\ 1 \notin KeptLines(lastOut.services)
    /\ Len(data_all) = 1
    /\ data_all[1][3] = <<>>

\* how often a row stands in a list
Count(rows, row) == Cardinality({ i \in DOMAIN rows : rows[i] = row })

\* C12: every record of the view is a record of the Snapshot, and stands in the
\* view no more often than in the Snapshot.
C12_ViewWithinSnapshot ==
    \A d \in Range(data) : Count(data, d) <= Count(data_all, d)

\* after a load, a filter that keeps one of two records, and a sort
C12_Witness ==
    /\ lastOp = "sort"
    /\ searchText # <<>>
    /\ Len(data_all) = 2
    /\ Len(data) = 1

\* rows stand in the order of column ncol, descending when reverse
IsOrdered(rows, ncol, reverse) ==
    \A i, j \in DOMAIN rows : i < j => ~Precedes(rows[j], rows[i], ncol, reverse)

\* C13: the view that on_search_changed produces right after a sort(ncol, order) is
\* still in the order of column ncol in that direction.
C13_FilterKeepsSortOrder ==
    [][(lastOp = "sort" /\ lastOp' = "search") =>
           IsOrdered(data', last_saved_sort_column, last_saved_sort_order)]_vars

====
